---- MODULE Spec2Model ----
(***************************************************************************)
(* kellydunn/breaker: a failure-counting circuit breaker.                  *)
(*                                                                         *)
(* The model follows the sync.Once / sync/atomic revision of the package   *)
(* (src/unnamed/part_001): the Breaker's two counters, Trip, Reset,       *)
(* IsOpen, IsClosed, and Do, which races a worker goroutine against a      *)
(* timer goroutine.  Every goroutine of a Do call is a process of the      *)
(* model.  A call of Do owns its channels, its sync.Once and its WaitGroup *)
(* and shares only the Breaker with the rest of the program, so the model  *)
(* follows one call of Do from entry until its last goroutine ends, while  *)
(* other goroutines Trip and Reset the same breaker before, during and     *)
(* after it.  The Do of the mutex revision (src/breaker.go) is modelled    *)
(* beside it, over the same state.                                         *)
(***************************************************************************)
EXTENDS Integers, Sequences, FiniteSets, TLC

(***************************************************************************)
(* Bounds of the model.                                                    *)
(***************************************************************************)
\* Largest threshold NewBreaker is called with where Do is exercised.
MaxThreshold == 2
\* Largest timeout (in ticks of the timer's sleep) Do is called with.
MaxTimeout == 1
\* Direct Trip and Reset calls made by other goroutines while Do is exercised.
MaxTrips == 1
MaxResets == 2
\* The State Counter on its own: the largest threshold, the number of
\* goroutines that call Trip concurrently, and the Trips each of them makes.
CounterThreshold == 10
NumTrippers == 2
TripsEach == 5
\* Width, in bits, the uint64 counters are scaled to; only SpecWrap makes
\* 2^Width Trips in a row.
Width == 5

\* The calls of Do that are followed.
Calls == {1}
Trippers == 1 .. NumTrippers

\* make(chan bool, 1), make(chan error, 1)
ChanCap == 1

\* The values of type error: nil, the sentinel, and what an operation returns.
ErrTimeout == "ErrTimeout"
OpErrors == {"e1", "e2"}
\* What the HandlerFunc passed to Do does: returns nil, returns an error, or
\* never returns.
Handlers == {"nil", "hang"} \cup OpErrors
\* A HandlerFunc that panics instead.
Panicking == "panic"

VARIABLES
    threshold,   \* Breaker.threshold
    failures,    \* Breaker.failures
    mu,          \* Breaker.mu of the mutex revision: the goroutine holding it
    do,          \* do[c]: the locals, channels, guards and goroutines of call c,
                 \* with what the call has done so far: winner (who ran the
                 \* once), trips and resets (its own b.Trip() and b.Reset()
                 \* calls), f0 and m0 (failures and mutations at entry), late
                 \* (the loser went through the once after Do had returned),
                 \* tie (f had returned and the sleep had ended when the
                 \* select was evaluated)
    panicked,    \* the process died in a runtime panic
    issued,      \* issued[p]: Trip calls goroutine p of the counter test has made
    extTrips,    \* direct Trip calls made beside Do
    resets,      \* direct Reset calls made
    sinceReset,  \* Trip calls that took effect since the last Reset took effect
    mutations    \* Trip and Reset calls that took effect, whoever made them

vars == <<threshold, failures, mu, do, panicked, issued, extTrips, resets,
          sinceReset, mutations>>

(***************************************************************************)
(* The State Counter.                                                      *)
(***************************************************************************)
Modulus == 2 ^ Width

NewBreaker(t) == [threshold |-> t, failures |-> 0]

\* IsOpen as its comment reads: "a failure count above its failure threshold".
IsOpenAbove == failures > threshold

\* A breaker that has counted no failure is never reported open.
IsOpenTripped == failures >= threshold /\ failures > 0

IsOpen == failures >= threshold

\* IsClosed with the boundary on the wrong side.
IsClosedAtMost == failures <= threshold

IsClosed == failures < threshold

\* A Trip that stops counting once the breaker is open.
TripSaturating(n) == IF n >= threshold THEN n ELSE (n + 1) % Modulus

\* atomic.AddUint64(&b.failures, 1)
Trip(n) == (n + 1) % Modulus

\* A Reset that forgives one failure instead of all of them.
ResetDecrement(n) == IF n > 0 THEN n - 1 ELSE 0

\* atomic.StoreUint64(&b.failures, 0)
Reset(n) == 0

(***************************************************************************)
(* Do: the state of one call.                                              *)
(***************************************************************************)
IdleCall ==
    [ pc |-> "idle", f |-> "nil", timeout |-> 0, tleft |-> 0,
      timerPc |-> "none", workerPc |-> "none",
      timerChan |-> <<>>, errChan |-> <<>>, closed |-> FALSE,
      onceOwner |-> "none", onceDone |-> FALSE, done |-> 0,
      branch |-> "none", recv |-> "nil", ret |-> "nil",
      winner |-> "none", trips |-> 0, resets |-> 0, f0 |-> 0, m0 |-> 0,
      late |-> FALSE, tie |-> FALSE ]

\* A send on an unbuffered channel nobody receives from yet.
SendUnbuffered(buf, closed) == IF closed THEN "panic" ELSE "block"

\* A send on a buffered channel: panics when closed, blocks when full.
SendResult(buf, closed) ==
    IF closed THEN "panic"
    ELSE IF Len(buf) >= ChanCap THEN "block"
    ELSE "ok"

\* A guard that tests the done flag without holding the once's mutex.
OnceAdmitsUnlocked(r) == ~r.onceDone

\* A guard that is only a mutex: every caller runs the function in its turn.
OnceAdmitsInTurn(r) == r.onceOwner = "none"

\* once.Do(fn): whether this caller is the one that runs fn ...
OnceAdmits(r) == ~r.onceDone /\ r.onceOwner = "none"

\* ... or returns without running it.
OnceSkips(r) == r.onceDone

\* A worker that forgets to deliver its error.
WorkerSendsNever(err) == FALSE

\* if err != nil { errChan <- err }
WorkerSends(err) == err # "nil"

\* A select without the timer's case.
SelectCasesNoTimer(r) == IF Len(r.errChan) > 0 THEN {"err"} ELSE {"default"}

\* The cases of Do's select that can proceed; default when none can.
SelectCases(r) ==
    LET ready == (IF Len(r.timerChan) > 0 THEN {"timer"} ELSE {})
                 \cup (IF Len(r.errChan) > 0 THEN {"err"} ELSE {})
    IN  IF ready = {} THEN {"default"} ELSE ready

\* Only an error of the operation trips; every outcome trips.
BranchTripsErrOnly(b) == b = "err"
BranchTripsAlways(b) == TRUE

\* Whether the taken case calls b.Trip().
BranchTrips(b) == b \in {"timer", "err"}

\* Whether the taken case calls b.Reset(): none does.
BranchResets(b) == FALSE

\* Every failure reported as a timeout.
BranchRetSentinel(b, e) == IF b = "default" THEN "nil" ELSE ErrTimeout

\* Whatever is not an error of the operation reported as a timeout.
BranchRetTimeoutUnlessErr(b, e) == IF b = "err" THEN e ELSE ErrTimeout

\* The value the taken case assigns to ret.
BranchRet(b, e) ==
    IF b = "timer" THEN ErrTimeout
    ELSE IF b = "err" THEN e
    ELSE "nil"

Fresh ==
    /\ mu = "none"
    /\ do = [c \in Calls |-> IdleCall]
    /\ panicked = FALSE
    /\ issued = [p \in Trippers |-> 0]
    /\ extTrips = 0
    /\ resets = 0
    /\ sinceReset = 0
    /\ mutations = 0

Init ==
    /\ \E t \in 0 .. MaxThreshold :
          /\ threshold = NewBreaker(t).threshold
          /\ failures = NewBreaker(t).failures
    /\ Fresh

(***************************************************************************)
(* Direct callers of the State Counter.                                    *)
(***************************************************************************)
ExtTrip ==
    /\ ~panicked
    /\ extTrips < MaxTrips
    /\ failures' = Trip(failures)
    /\ extTrips' = extTrips + 1
    /\ sinceReset' = sinceReset + 1
    /\ mutations' = mutations + 1
    /\ UNCHANGED <<mu, threshold, do, panicked, issued, resets>>

ExtReset ==
    /\ ~panicked
    /\ resets < MaxResets
    /\ failures' = Reset(failures)
    /\ resets' = resets + 1
    /\ sinceReset' = 0
    /\ mutations' = mutations + 1
    /\ UNCHANGED <<mu, threshold, do, panicked, issued, extTrips>>

\* One of the goroutines that Trip the breaker concurrently.
TripperTrip(p) ==
    /\ issued[p] < TripsEach
    /\ failures' = Trip(failures)
    /\ issued' = [issued EXCEPT ![p] = @ + 1]
    /\ sinceReset' = sinceReset + 1
    /\ mutations' = mutations + 1
    /\ UNCHANGED <<mu, threshold, do, panicked, extTrips, resets>>

\* A goroutine that keeps calling Trip: between two Resets it makes as many
\* Trips as the counter has values.
LongTrip ==
    /\ sinceReset < Modulus
    /\ failures' = Trip(failures)
    /\ sinceReset' = sinceReset + 1
    /\ mutations' = mutations + 1
    /\ UNCHANGED <<mu, threshold, do, panicked, issued, extTrips, resets>>

(***************************************************************************)
(* Do, the calling goroutine.                                              *)
(***************************************************************************)
\* Entry: the channels, the deferred closes, once, done.Add(1), and the two
\* go statements.
Entered(h, d) ==
    [IdleCall EXCEPT !.pc = "wait", !.f = h, !.timeout = d, !.tleft = d,
                     !.timerPc = "sleep", !.workerPc = "run", !.done = 1,
                     !.f0 = failures, !.m0 = mutations]

DoCall(c) ==
    /\ ~panicked
    /\ do[c].pc = "idle"
    /\ \E h \in Handlers, d \in 0 .. MaxTimeout :
          do' = [do EXCEPT ![c] = Entered(h, d)]
    /\ UNCHANGED <<mu, threshold, failures, panicked, issued, extTrips, resets,
                   sinceReset, mutations>>

\* Entry with an operation that panics.
DoCallPanicking(c) ==
    /\ ~panicked
    /\ do[c].pc = "idle"
    /\ \E d \in 0 .. MaxTimeout :
          do' = [do EXCEPT ![c] = Entered(Panicking, d)]
    /\ UNCHANGED <<mu, threshold, failures, panicked, issued, extTrips, resets,
                   sinceReset, mutations>>

\* done.Wait()
DoWait(c) ==
    /\ ~panicked
    /\ do[c].pc = "wait"
    /\ do[c].done = 0
    /\ do' = [do EXCEPT ![c].pc = "select"]
    /\ UNCHANGED <<mu, threshold, failures, panicked, issued, extTrips, resets,
                   sinceReset, mutations>>

\* select { case <-timerChan: ... case e := <-errChan: ... default: ... }
DoSelect(c) ==
    /\ ~panicked
    /\ do[c].pc = "select"
    /\ \E b \in SelectCases(do[c]) :
          do' = [do EXCEPT
                    ![c].pc = "act",
                    ![c].branch = b,
                    ![c].tie = (do[c].timerPc # "sleep" /\ do[c].workerPc # "run"),
                    ![c].recv = IF b = "err" THEN Head(do[c].errChan) ELSE "nil",
                    ![c].timerChan = IF b = "timer" THEN Tail(@) ELSE @,
                    ![c].errChan = IF b = "err" THEN Tail(@) ELSE @]
    /\ UNCHANGED <<mu, threshold, failures, panicked, issued, extTrips, resets,
                   sinceReset, mutations>>

\* The body of the taken case: b.Trip() and the assignment to ret.
DoAct(c) ==
    /\ ~panicked
    /\ do[c].pc = "act"
    /\ LET tr == BranchTrips(do[c].branch)
           rs == ~tr /\ BranchResets(do[c].branch)
       IN /\ failures' = IF tr THEN Trip(failures)
                         ELSE IF rs THEN Reset(failures) ELSE failures
          /\ sinceReset' = IF tr THEN sinceReset + 1
                           ELSE IF rs THEN 0 ELSE sinceReset
          /\ mutations' = IF tr \/ rs THEN mutations + 1 ELSE mutations
          /\ do' = [do EXCEPT
                       ![c].pc = "defer",
                       ![c].ret = BranchRet(do[c].branch, do[c].recv),
                       ![c].trips = IF tr THEN @ + 1 ELSE @,
                       ![c].resets = IF rs THEN @ + 1 ELSE @]
    /\ UNCHANGED <<mu, threshold, panicked, issued, extTrips, resets>>

\* return ret, running the deferred close(errChan) and close(timerChan).
DoReturn(c) ==
    /\ ~panicked
    /\ do[c].pc = "defer"
    /\ do' = [do EXCEPT ![c].pc = "returned", ![c].closed = TRUE]
    /\ UNCHANGED <<mu, threshold, failures, panicked, issued, extTrips, resets,
                   sinceReset, mutations>>

(***************************************************************************)
(* Do, the timer goroutine.                                                *)
(***************************************************************************)
\* time.Sleep(timeout): time passes ...
TimerTick(c) ==
    /\ ~panicked
    /\ do[c].timerPc = "sleep"
    /\ do[c].tleft > 0
    /\ do' = [do EXCEPT ![c].tleft = @ - 1]
    /\ UNCHANGED <<mu, threshold, failures, panicked, issued, extTrips, resets,
                   sinceReset, mutations>>

\* ... and the sleep ends.
TimerWake(c) ==
    /\ ~panicked
    /\ do[c].timerPc = "sleep"
    /\ do[c].tleft = 0
    /\ do' = [do EXCEPT ![c].timerPc = "once"]
    /\ UNCHANGED <<mu, threshold, failures, panicked, issued, extTrips, resets,
                   sinceReset, mutations>>

\* once.Do: the first caller runs the function.
TimerOnceEnter(c) ==
    /\ ~panicked
    /\ do[c].timerPc = "once"
    /\ OnceAdmits(do[c])
    /\ do' = [do EXCEPT ![c].timerPc = "send", ![c].onceOwner = "timer",
                        ![c].winner = IF @ = "none" THEN "timer" ELSE "both"]
    /\ UNCHANGED <<mu, threshold, failures, panicked, issued, extTrips, resets,
                   sinceReset, mutations>>

\* once.Do: a later caller returns at once.
TimerOnceSkip(c) ==
    /\ ~panicked
    /\ do[c].timerPc = "once"
    /\ OnceSkips(do[c])
    /\ do' = [do EXCEPT ![c].timerPc = "exit",
                        ![c].late = (do[c].pc = "returned")]
    /\ UNCHANGED <<mu, threshold, failures, panicked, issued, extTrips, resets,
                   sinceReset, mutations>>

\* timerChan <- true
TimerSend(c) ==
    /\ ~panicked
    /\ do[c].timerPc = "send"
    /\ LET res == SendResult(do[c].timerChan, do[c].closed) IN
          /\ res # "block"
          /\ panicked' = (res = "panic")
          /\ do' = IF res = "ok"
                   THEN [do EXCEPT ![c].timerPc = "signal",
                                   ![c].timerChan = Append(@, TRUE)]
                   ELSE do
    /\ UNCHANGED <<mu, threshold, failures, issued, extTrips, resets, sinceReset,
                   mutations>>

\* done.Done(): a negative WaitGroup counter panics.
TimerSignal(c) ==
    /\ ~panicked
    /\ do[c].timerPc = "signal"
    /\ panicked' = (do[c].done = 0)
    /\ do' = IF do[c].done > 0
             THEN [do EXCEPT ![c].timerPc = "unlock", ![c].done = @ - 1]
             ELSE do
    /\ UNCHANGED <<mu, threshold, failures, issued, extTrips, resets, sinceReset,
                   mutations>>

\* once.Do returns: the once is marked done and its mutex released.
TimerOnceLeave(c) ==
    /\ ~panicked
    /\ do[c].timerPc = "unlock"
    /\ do' = [do EXCEPT ![c].timerPc = "exit", ![c].onceDone = TRUE,
                        ![c].onceOwner = "none"]
    /\ UNCHANGED <<mu, threshold, failures, panicked, issued, extTrips, resets,
                   sinceReset, mutations>>

(***************************************************************************)
(* Do, the worker goroutine.                                               *)
(***************************************************************************)
\* err := f(), for an f that returns.
WorkerReturn(c) ==
    /\ ~panicked
    /\ do[c].workerPc = "run"
    /\ do[c].f \in {"nil"} \cup OpErrors
    /\ do' = [do EXCEPT ![c].workerPc = "once"]
    /\ UNCHANGED <<mu, threshold, failures, panicked, issued, extTrips, resets,
                   sinceReset, mutations>>

\* err := f(), for an f that panics: nothing recovers, the runtime ends the
\* process.
WorkerPanic(c) ==
    /\ ~panicked
    /\ do[c].workerPc = "run"
    /\ do[c].f = Panicking
    /\ panicked' = TRUE
    /\ UNCHANGED <<mu, threshold, failures, do, issued, extTrips, resets,
                   sinceReset, mutations>>

WorkerOnceEnter(c) ==
    /\ ~panicked
    /\ do[c].workerPc = "once"
    /\ OnceAdmits(do[c])
    /\ do' = [do EXCEPT ![c].workerPc = "send", ![c].onceOwner = "worker",
                        ![c].winner = IF @ = "none" THEN "worker" ELSE "both"]
    /\ UNCHANGED <<mu, threshold, failures, panicked, issued, extTrips, resets,
                   sinceReset, mutations>>

WorkerOnceSkip(c) ==
    /\ ~panicked
    /\ do[c].workerPc = "once"
    /\ OnceSkips(do[c])
    /\ do' = [do EXCEPT ![c].workerPc = "exit",
                        ![c].late = (do[c].pc = "returned")]
    /\ UNCHANGED <<mu, threshold, failures, panicked, issued, extTrips, resets,
                   sinceReset, mutations>>

\* if err != nil { errChan <- err }
WorkerSend(c) ==
    /\ ~panicked
    /\ do[c].workerPc = "send"
    /\ LET res == IF WorkerSends(do[c].f)
                  THEN SendResult(do[c].errChan, do[c].closed)
                  ELSE "skip"
       IN /\ res # "block"
          /\ panicked' = (res = "panic")
          /\ do' = IF res = "ok"
                   THEN [do EXCEPT ![c].workerPc = "signal",
                                   ![c].errChan = Append(@, do[c].f)]
                   ELSE IF res = "skip"
                   THEN [do EXCEPT ![c].workerPc = "signal"]
                   ELSE do
    /\ UNCHANGED <<mu, threshold, failures, issued, extTrips, resets, sinceReset,
                   mutations>>

WorkerSignal(c) ==
    /\ ~panicked
    /\ do[c].workerPc = "signal"
    /\ panicked' = (do[c].done = 0)
    /\ do' = IF do[c].done > 0
             THEN [do EXCEPT ![c].workerPc = "unlock", ![c].done = @ - 1]
             ELSE do
    /\ UNCHANGED <<mu, threshold, failures, issued, extTrips, resets, sinceReset,
                   mutations>>

WorkerOnceLeave(c) ==
    /\ ~panicked
    /\ do[c].workerPc = "unlock"
    /\ do' = [do EXCEPT ![c].workerPc = "exit", ![c].onceDone = TRUE,
                        ![c].onceOwner = "none"]
    /\ UNCHANGED <<mu, threshold, failures, panicked, issued, extTrips, resets,
                   sinceReset, mutations>>

(***************************************************************************)
(* The mutex revision (src/breaker.go, its last Do).  Trip and Reset take   *)
(* b.mu; the goroutines of Do send before they take b.mu and the once, and *)
(* the function of the once is done.Done() alone.  Entry, done.Wait(), the *)
(* select and the deferred closes are those of the revision above.         *)
(***************************************************************************)
\* b.mu.Lock(); b.failures++; b.mu.Unlock(), by another goroutine.
MuTrip ==
    /\ ~panicked
    /\ mu = "none"
    /\ extTrips < MaxTrips
    /\ failures' = failures + 1
    /\ extTrips' = extTrips + 1
    /\ sinceReset' = sinceReset + 1
    /\ mutations' = mutations + 1
    /\ UNCHANGED <<mu, threshold, do, panicked, issued, resets>>

\* b.mu.Lock(); b.failures = 0; b.mu.Unlock(), by another goroutine.
MuReset ==
    /\ ~panicked
    /\ mu = "none"
    /\ resets < MaxResets
    /\ failures' = 0
    /\ resets' = resets + 1
    /\ sinceReset' = 0
    /\ mutations' = mutations + 1
    /\ UNCHANGED <<mu, threshold, do, panicked, issued, extTrips>>

\* The body of the taken case; b.Trip() waits for b.mu.
MuDoAct(c) ==
    /\ ~panicked
    /\ do[c].pc = "act"
    /\ LET tr == BranchTrips(do[c].branch) IN
          /\ tr => mu = "none"
          /\ failures' = IF tr THEN failures + 1 ELSE failures
          /\ sinceReset' = IF tr THEN sinceReset + 1 ELSE sinceReset
          /\ mutations' = IF tr THEN mutations + 1 ELSE mutations
          /\ do' = [do EXCEPT
                       ![c].pc = "defer",
                       ![c].ret = BranchRet(do[c].branch, do[c].recv),
                       ![c].trips = IF tr THEN @ + 1 ELSE @]
    /\ UNCHANGED <<mu, threshold, panicked, issued, extTrips, resets>>

\* time.Sleep(timeout) ends; the send comes next.
MuTimerWake(c) ==
    /\ ~panicked
    /\ do[c].timerPc = "sleep"
    /\ do[c].tleft = 0
    /\ do' = [do EXCEPT ![c].timerPc = "send"]
    /\ UNCHANGED <<mu, threshold, failures, panicked, issued, extTrips, resets,
                   sinceReset, mutations>>

\* timerChan <- true, whoever has won.
MuTimerSend(c) ==
    /\ ~panicked
    /\ do[c].timerPc = "send"
    /\ LET res == SendResult(do[c].timerChan, do[c].closed) IN
          /\ res # "block"
          /\ panicked' = (res = "panic")
          /\ do' = IF res = "ok"
                   THEN [do EXCEPT ![c].timerPc = "lock",
                                   ![c].timerChan = Append(@, TRUE)]
                   ELSE do
    /\ UNCHANGED <<mu, threshold, failures, issued, extTrips, resets, sinceReset,
                   mutations>>

\* b.mu.Lock()
MuTimerLock(c) ==
    /\ ~panicked
    /\ do[c].timerPc = "lock"
    /\ mu = "none"
    /\ mu' = "timer"
    /\ do' = [do EXCEPT ![c].timerPc = "guarded"]
    /\ UNCHANGED <<threshold, failures, panicked, issued, extTrips, resets,
                   sinceReset, mutations>>

\* once.Do(func() { done.Done() }), under b.mu.
MuTimerOnce(c) ==
    /\ ~panicked
    /\ do[c].timerPc = "guarded"
    /\ OnceAdmits(do[c]) \/ OnceSkips(do[c])
    /\ panicked' = (OnceAdmits(do[c]) /\ do[c].done = 0)
    /\ do' = IF OnceAdmits(do[c]) /\ do[c].done > 0
             THEN [do EXCEPT ![c].timerPc = "release", ![c].done = @ - 1,
                             ![c].onceDone = TRUE,
                             ![c].winner = IF @ = "none" THEN "timer" ELSE "both"]
             ELSE IF OnceAdmits(do[c]) THEN do
             ELSE [do EXCEPT ![c].timerPc = "release",
                             ![c].late = (do[c].pc = "returned")]
    /\ UNCHANGED <<mu, threshold, failures, issued, extTrips, resets, sinceReset,
                   mutations>>

\* b.mu.Unlock()
MuTimerUnlock(c) ==
    /\ ~panicked
    /\ do[c].timerPc = "release"
    /\ mu' = "none"
    /\ do' = [do EXCEPT ![c].timerPc = "exit"]
    /\ UNCHANGED <<threshold, failures, panicked, issued, extTrips, resets,
                   sinceReset, mutations>>

\* err := f(), for an f that returns; the send comes next.
MuWorkerReturn(c) ==
    /\ ~panicked
    /\ do[c].workerPc = "run"
    /\ do[c].f \in {"nil"} \cup OpErrors
    /\ do' = [do EXCEPT ![c].workerPc = "send"]
    /\ UNCHANGED <<mu, threshold, failures, panicked, issued, extTrips, resets,
                   sinceReset, mutations>>

\* if err != nil { errChan <- err }, whoever has won.
MuWorkerSend(c) ==
    /\ ~panicked
    /\ do[c].workerPc = "send"
    /\ LET res == IF WorkerSends(do[c].f)
                  THEN SendResult(do[c].errChan, do[c].closed)
                  ELSE "skip"
       IN /\ res # "block"
          /\ panicked' = (res = "panic")
          /\ do' = IF res = "ok"
                   THEN [do EXCEPT ![c].workerPc = "lock",
                                   ![c].errChan = Append(@, do[c].f)]
                   ELSE IF res = "skip"
                   THEN [do EXCEPT ![c].workerPc = "lock"]
                   ELSE do
    /\ UNCHANGED <<mu, threshold, failures, issued, extTrips, resets, sinceReset,
                   mutations>>

MuWorkerLock(c) ==
    /\ ~panicked
    /\ do[c].workerPc = "lock"
    /\ mu = "none"
    /\ mu' = "worker"
    /\ do' = [do EXCEPT ![c].workerPc = "guarded"]
    /\ UNCHANGED <<threshold, failures, panicked, issued, extTrips, resets,
                   sinceReset, mutations>>

MuWorkerOnce(c) ==
    /\ ~panicked
    /\ do[c].workerPc = "guarded"
    /\ OnceAdmits(do[c]) \/ OnceSkips(do[c])
    /\ panicked' = (OnceAdmits(do[c]) /\ do[c].done = 0)
    /\ do' = IF OnceAdmits(do[c]) /\ do[c].done > 0
             THEN [do EXCEPT ![c].workerPc = "release", ![c].done = @ - 1,
                             ![c].onceDone = TRUE,
                             ![c].winner = IF @ = "none" THEN "worker" ELSE "both"]
             ELSE IF OnceAdmits(do[c]) THEN do
             ELSE [do EXCEPT ![c].workerPc = "release",
                             ![c].late = (do[c].pc = "returned")]
    /\ UNCHANGED <<mu, threshold, failures, issued, extTrips, resets, sinceReset,
                   mutations>>

MuWorkerUnlock(c) ==
    /\ ~panicked
    /\ do[c].workerPc = "release"
    /\ mu' = "none"
    /\ do' = [do EXCEPT ![c].workerPc = "exit"]
    /\ UNCHANGED <<threshold, failures, panicked, issued, extTrips, resets,
                   sinceReset, mutations>>

(***************************************************************************)
(* The specification.                                                      *)
(***************************************************************************)
MainStep(c) ==
    DoWait(c) \/ DoSelect(c) \/ DoAct(c) \/ DoReturn(c)

TimerStep(c) ==
    \/ TimerTick(c) \/ TimerWake(c) \/ TimerOnceEnter(c) \/ TimerOnceSkip(c)
    \/ TimerSend(c) \/ TimerSignal(c) \/ TimerOnceLeave(c)

WorkerStep(c) ==
    \/ WorkerReturn(c) \/ WorkerOnceEnter(c) \/ WorkerOnceSkip(c)
    \/ WorkerSend(c) \/ WorkerSignal(c) \/ WorkerOnceLeave(c)

Next ==
    \/ ExtTrip
    \/ ExtReset
    \/ \E c \in Calls : DoCall(c)
    \/ \E c \in Calls : MainStep(c)
    \/ \E c \in Calls : TimerStep(c)
    \/ \E c \in Calls : WorkerStep(c)

Spec == Init /\ [][Next]_vars

\* The goroutines of Do are scheduled fairly; nobody has to call Do, Trip or
\* Reset.
Fairness ==
    \A c \in Calls :
        WF_vars(MainStep(c)) /\ WF_vars(TimerStep(c)) /\ WF_vars(WorkerStep(c))

FairSpec == Spec /\ Fairness

\* The State Counter on its own, under concurrent Trip and Reset callers.
InitCounter ==
    /\ \E t \in 0 .. CounterThreshold :
          /\ threshold = NewBreaker(t).threshold
          /\ failures = NewBreaker(t).failures
    /\ Fresh

NextCounter ==
    \/ \E p \in Trippers : TripperTrip(p)
    \/ ExtReset

SpecCounter == InitCounter /\ [][NextCounter]_vars

\* The package called also with operations that panic.
NextPanic ==
    \/ ExtTrip
    \/ ExtReset
    \/ \E c \in Calls : DoCall(c)
    \/ \E c \in Calls : DoCallPanicking(c)
    \/ \E c \in Calls : MainStep(c)
    \/ \E c \in Calls : TimerStep(c)
    \/ \E c \in Calls : WorkerStep(c)
    \/ \E c \in Calls : WorkerPanic(c)

SpecPanic == Init /\ [][NextPanic]_vars

\* The mutex revision of the package.
MuMainStep(c) ==
    DoWait(c) \/ DoSelect(c) \/ MuDoAct(c) \/ DoReturn(c)

MuTimerStep(c) ==
    \/ TimerTick(c) \/ MuTimerWake(c) \/ MuTimerSend(c) \/ MuTimerLock(c)
    \/ MuTimerOnce(c) \/ MuTimerUnlock(c)

MuWorkerStep(c) ==
    \/ MuWorkerReturn(c) \/ MuWorkerSend(c) \/ MuWorkerLock(c)
    \/ MuWorkerOnce(c) \/ MuWorkerUnlock(c)

NextMutex ==
    \/ MuTrip
    \/ MuReset
    \/ \E c \in Calls : DoCall(c)
    \/ \E c \in Calls : MuMainStep(c)
    \/ \E c \in Calls : MuTimerStep(c)
    \/ \E c \in Calls : MuWorkerStep(c)

SpecMutex == Init /\ [][NextMutex]_vars

\* The State Counter taken through the whole range of its unsigned integer.
NextWrap ==
    \/ LongTrip
    \/ ExtReset

SpecWrap == InitCounter /\ [][NextWrap]_vars

(***************************************************************************)
(* Vocabulary of the properties.                                           *)
(***************************************************************************)
\* Do has returned to its caller.
Returned(c) == do[c].pc = "returned"

\* Which goroutine ran the function of the once, that is, signalled first.
WorkerWon(c) == do[c].winner = "worker"
TimerWon(c) == do[c].winner = "timer"

\* Nobody but call c has mutated the breaker since c was entered.
Quiet(c) == mutations - do[c].m0 = do[c].trips + do[c].resets

\* The goroutines of call c have ended.
Ended(c) == do[c].timerPc = "exit" /\ do[c].workerPc = "exit"

RECURSIVE SumIssued(_)
SumIssued(S) ==
    IF S = {} THEN 0
    ELSE LET p == CHOOSE q \in S : TRUE IN issued[p] + SumIssued(S \ {p})

(***************************************************************************)
(* Properties of Do.                                                       *)
(***************************************************************************)
\* C1: every call of Do that returns has made exactly one mutation of the
\* breaker, one Trip or one Reset, never zero and never two.
C1_ExactlyOneMutation ==
    \A c \in Calls : Returned(c) => do[c].trips + do[c].resets = 1

\* C2: when the operation returns nil and the worker wins the race, the
\* breaker is reset: failures is 0 when Do returns, whatever it was before.
C2_SuccessResets ==
    \A c \in Calls :
        (Returned(c) /\ WorkerWon(c) /\ do[c].f = "nil" /\ Quiet(c))
            => failures = 0

\* C3: when the operation returns an error and the worker wins the race, Do
\* returns that very error, neither ErrTimeout nor nil, and the call raises
\* failures by exactly 1; a fresh threshold-1 breaker is open afterwards.
C3_WorkerErrorTrips ==
    \A c \in Calls :
        (Returned(c) /\ WorkerWon(c) /\ do[c].f \in OpErrors)
            => /\ do[c].ret = do[c].f
               /\ do[c].ret \notin {ErrTimeout, "nil"}
               /\ do[c].trips = 1 /\ do[c].resets = 0
               /\ Quiet(c) => failures = do[c].f0 + 1
               /\ (Quiet(c) /\ do[c].f0 = 0 /\ threshold = 1) => IsOpen

C3_Witness ==
    \E c \in Calls :
        /\ Returned(c) /\ WorkerWon(c) /\ do[c].f = "e2" /\ do[c].ret = "e2"
        /\ Quiet(c) /\ do[c].f0 = 0 /\ threshold = 1 /\ IsOpen

\* C4: when the timer wins the race, Do returns ErrTimeout and the call raises
\* failures by exactly 1; what the operation returns later is never returned
\* by Do; an operation that outlasts a timeout of 0 leaves a threshold-1
\* breaker open.
C4_TimeoutTrips ==
    \A c \in Calls :
        (Returned(c) /\ TimerWon(c))
            => /\ do[c].ret = ErrTimeout
               /\ do[c].trips = 1 /\ do[c].resets = 0
               /\ Quiet(c) => failures = do[c].f0 + 1
               /\ (Quiet(c) /\ do[c].f0 = 0 /\ threshold = 1) => IsOpen

C4_Witness ==
    \E c \in Calls :
        /\ Returned(c) /\ TimerWon(c) /\ do[c].timeout = 0
        /\ do[c].f \in OpErrors /\ do[c].workerPc = "exit" /\ do[c].late
        /\ do[c].ret = ErrTimeout
        /\ Quiet(c) /\ do[c].f0 = 0 /\ threshold = 1 /\ IsOpen

\* C5: when the operation returns nil and the worker wins the race, Do
\* returns nil and does not raise failures: a breaker that was closed before
\* the call is closed after it.
C5_SuccessKeepsClosed ==
    \A c \in Calls :
        (Returned(c) /\ WorkerWon(c) /\ do[c].f = "nil")
            => /\ do[c].ret = "nil"
               /\ do[c].trips = 0
               /\ Quiet(c) => failures = do[c].f0
               /\ (Quiet(c) /\ do[c].f0 < threshold) => IsClosed

C5_Witness ==
    \E c \in Calls :
        /\ Returned(c) /\ WorkerWon(c) /\ do[c].f = "nil" /\ do[c].ret = "nil"
        /\ Quiet(c) /\ do[c].f0 = 1 /\ threshold = 2 /\ IsClosed

\* C6, as claimed: Do called with timeout 0 and an operation that returns an
\* error e at once returns exactly e, never ErrTimeout, in every scheduling,
\* and trips the breaker by exactly 1.
C6_AlwaysOperationError ==
    \A c \in Calls :
        (Returned(c) /\ do[c].timeout = 0 /\ do[c].f \in OpErrors)
            => do[c].ret = do[c].f /\ do[c].trips = 1

\* C6, amended: such a call returns e when the worker reaches the once first
\* and ErrTimeout when the timer does, and in either case trips the breaker by
\* exactly 1, so that a fresh threshold-1 breaker is open afterwards.
C6_ErrorOrTimeout ==
    \A c \in Calls :
        (Returned(c) /\ do[c].timeout = 0 /\ do[c].f \in OpErrors)
            => /\ do[c].ret \in {do[c].f, ErrTimeout}
               /\ do[c].ret = do[c].f <=> WorkerWon(c)
               /\ do[c].ret = ErrTimeout <=> TimerWon(c)
               /\ do[c].trips = 1 /\ do[c].resets = 0
               /\ Quiet(c) => failures = do[c].f0 + 1
               /\ (Quiet(c) /\ do[c].f0 = 0 /\ threshold = 1) => IsOpen

C6_Witness ==
    \E c \in Calls :
        /\ Returned(c) /\ do[c].timeout = 0 /\ do[c].f = "e1"
        /\ do[c].ret = ErrTimeout /\ TimerWon(c) /\ do[c].workerPc = "exit"
        /\ Quiet(c) /\ do[c].f0 = 0 /\ threshold = 1 /\ IsOpen

\* C7: the loser of the race is never counted.  Over its whole lifetime a call
\* of Do trips the breaker at most once and returns only the winner's outcome;
\* once Do has returned, no step of its goroutines changes failures, the count
\* of the call's Trips or the value it returned.
C7_LoserNeverCounted ==
    /\ [](\A c \in Calls :
            /\ do[c].trips <= 1 /\ do[c].resets = 0
            /\ Returned(c) =>
                 /\ do[c].ret \in OpErrors => WorkerWon(c)
                 /\ do[c].ret = ErrTimeout => TimerWon(c)
                 /\ Quiet(c) => failures <= do[c].f0 + 1)
    /\ [][\A c \in Calls :
            Returned(c) =>
                 /\ do'[c].ret = do[c].ret
                 /\ do'[c].trips = do[c].trips
                 /\ do'[c] # do[c] => failures' = failures]_vars

C7_Witness ==
    \E c \in Calls :
        /\ Returned(c) /\ Ended(c) /\ do[c].late
        /\ do[c].trips = 1 /\ Quiet(c) /\ failures = do[c].f0 + 1

\* C9: under fair scheduling every call of Do returns, whatever the timeout
\* and the order in which worker and timer finish, and also when the operation
\* never returns; no goroutine of Do panics on the way.
C9_DoReturns ==
    /\ [](~panicked)
    /\ \A c \in Calls : (do[c].pc = "wait") ~> Returned(c)

C9_Witness ==
    \E c \in Calls :
        /\ Returned(c) /\ do[c].f = "hang" /\ do[c].workerPc = "run"
        /\ do[c].timeout = 0 /\ do[c].ret = ErrTimeout

\* C15: the goroutine that loses the race ends harmlessly once its own work
\* has ended: it never sends on timerChan or errChan, so no send meets a
\* closed or a full channel and nothing panics, and under fair scheduling it
\* terminates, whether Do is still waiting or has already returned.
C15_LoserEndsHarmlessly ==
    /\ [](/\ ~panicked
          /\ \A c \in Calls :
                /\ do[c].timerPc \in {"send", "signal", "unlock"}
                      => TimerWon(c)
                /\ do[c].workerPc \in {"send", "signal", "unlock"}
                      => WorkerWon(c)
                /\ do[c].timerPc = "send"
                      => ~do[c].closed /\ Len(do[c].timerChan) < ChanCap
                /\ do[c].workerPc = "send"
                      => ~do[c].closed /\ Len(do[c].errChan) < ChanCap)
    /\ \A c \in Calls : (do[c].timerPc = "once") ~> (do[c].timerPc = "exit")
    /\ \A c \in Calls : (do[c].workerPc = "once") ~> (do[c].workerPc = "exit")

C15_Witness ==
    \E c \in Calls :
        /\ Returned(c) /\ do[c].closed /\ WorkerWon(c)
        /\ do[c].timerPc = "exit" /\ do[c].late
        /\ do[c].timerChan = <<>> /\ ~panicked

\* C17, as claimed: when the operation has returned nil and the timer's sleep
\* has also ended by the time Do evaluates its select, Do returns nil and
\* makes no Trip and no Reset, whichever of the two ended first.
C17_TieIsNoOp ==
    \A c \in Calls :
        (Returned(c) /\ do[c].tie /\ do[c].f = "nil")
            => do[c].ret = "nil" /\ do[c].trips = 0 /\ do[c].resets = 0

\* C17, amended: in that situation the outcome is that of the goroutine which
\* ran the once first: nil and no mutation when it was the worker, ErrTimeout
\* and exactly one Trip when it was the timer.
C17_TieFollowsOnce ==
    \A c \in Calls :
        (Returned(c) /\ do[c].tie /\ do[c].f = "nil")
            => /\ WorkerWon(c) \/ TimerWon(c)
               /\ WorkerWon(c)
                     => /\ do[c].ret = "nil"
                        /\ do[c].trips = 0 /\ do[c].resets = 0
                        /\ Quiet(c) => failures = do[c].f0
               /\ TimerWon(c)
                     => /\ do[c].ret = ErrTimeout
                        /\ do[c].trips = 1 /\ do[c].resets = 0
                        /\ Quiet(c) => failures = do[c].f0 + 1

C17_Witness ==
    \E c \in Calls :
        /\ Returned(c) /\ do[c].tie /\ do[c].f = "nil" /\ TimerWon(c)
        /\ do[c].ret = ErrTimeout /\ do[c].trips = 1
        /\ Quiet(c) /\ failures = do[c].f0 + 1

\* C18: whenever Do evaluates its select with neither timerChan nor errChan
\* holding a value it takes the default case; that case returns nil and
\* leaves failures and threshold as they are: the call makes no Trip and no
\* Reset.
C18_DefaultBranch ==
    /\ [][\A c \in Calls :
            (/\ do[c].pc = "select" /\ do'[c].pc = "act"
             /\ do[c].timerChan = <<>> /\ do[c].errChan = <<>>)
                => /\ do'[c].branch = "default"
                   /\ failures' = failures /\ threshold' = threshold]_vars
    /\ [][\A c \in Calls :
            (do[c].pc = "act" /\ do[c].branch = "default" /\ do'[c].pc = "defer")
                => /\ do'[c].ret = "nil"
                   /\ do'[c].trips = do[c].trips
                   /\ do'[c].resets = do[c].resets
                   /\ failures' = failures /\ threshold' = threshold]_vars
    /\ [](\A c \in Calls :
            (Returned(c) /\ do[c].branch = "default")
                => /\ do[c].ret = "nil"
                   /\ do[c].trips = 0 /\ do[c].resets = 0
                   /\ Quiet(c) => failures = do[c].f0)

C18_Witness ==
    \E c \in Calls :
        /\ Returned(c) /\ do[c].branch = "default" /\ do[c].ret = "nil"
        /\ do[c].timerChan = <<>> /\ do[c].errChan = <<>>
        /\ do[c].trips = 0 /\ Quiet(c) /\ do[c].f0 = 1 /\ failures = 1

\* C20: the once admits exactly one goroutine.  At most one value is ever
\* sent on timerChan and errChan together, so they are never both non-empty;
\* done.Done() is executed exactly once, the WaitGroup going from 1 to 0 and
\* never below; and the winner's send precedes the release of done.Wait(),
\* hence the close of the channels.
C20_OnceAdmitsOne ==
    /\ ~panicked
    /\ \A c \in Calls :
          LET r == do[c]
              received == IF r.branch \in {"timer", "err"} THEN 1 ELSE 0
              signalled == \/ TimerWon(c) /\ r.timerPc \in {"unlock", "exit"}
                           \/ WorkerWon(c) /\ r.workerPc \in {"unlock", "exit"}
          IN  /\ r.winner # "both"
              /\ Len(r.timerChan) + Len(r.errChan) + received <= 1
              /\ r.timerPc \in {"send", "signal", "unlock"} => TimerWon(c)
              /\ r.workerPc \in {"send", "signal", "unlock"} => WorkerWon(c)
              /\ r.pc # "idle" => r.done = (IF signalled THEN 0 ELSE 1)
              /\ r.pc \in {"select", "act", "defer", "returned"} => signalled
              /\ r.pc = "select"
                    => /\ TimerWon(c) => r.timerChan = <<TRUE>>
                       /\ (WorkerWon(c) /\ WorkerSends(r.f))
                             => r.errChan = <<r.f>>
              /\ r.closed
                    => r.timerPc # "send" /\ r.workerPc # "send" /\ signalled

C20_Witness ==
    \E c \in Calls :
        /\ do[c].pc = "select" /\ do[c].done = 0 /\ WorkerWon(c)
        /\ do[c].errChan = <<"e1">> /\ do[c].timerChan = <<>>
        /\ do[c].timerPc = "once" /\ do[c].workerPc = "unlock"

\* C16: in the mutex revision no goroutine sends on timerChan or errChan
\* after Do has returned and closed them: when the worker wins and Do returns
\* before the timer's sleep ends, the timer's later send neither blocks nor
\* crashes the program.
C16_LateSignalHarmless ==
    \A c \in Calls : Returned(c) => ~panicked

\* C19: when the operation passed to Do panics instead of returning, Do still
\* produces exactly one outcome: the call is never stuck (until it has
\* returned, one of its goroutines can take a step, the timer resolving the
\* race), the breaker is mutated at most once, and the caller gets a single
\* result.
C19_PanicStillOneOutcome ==
    \A c \in Calls :
        (do[c].f = Panicking /\ do[c].pc # "idle")
            => /\ do[c].trips + do[c].resets <= 1
               /\ \/ Returned(c)
                  \/ ENABLED (MainStep(c) \/ TimerStep(c) \/ WorkerStep(c))

(***************************************************************************)
(* Properties of the State Counter.                                        *)
(***************************************************************************)
\* C8: Trip and Reset are linearizable: failures always equals the number of
\* Trips that took effect since the last Reset took effect; the Trips of
\* concurrent callers are all counted when nobody resets, and once every
\* caller has made all its Trips the breaker is open, not closed.
C8_Linearizable ==
    /\ failures = sinceReset
    /\ resets = 0 => failures = SumIssued(Trippers)
    /\ (resets = 0 /\ \A p \in Trippers : issued[p] = TripsEach)
          => /\ failures = NumTrippers * TripsEach
             /\ threshold <= NumTrippers * TripsEach => IsOpen /\ ~IsClosed

C8_Witness ==
    /\ resets = 0
    /\ \A p \in Trippers : issued[p] = TripsEach
    /\ threshold = NumTrippers * TripsEach
    /\ failures = NumTrippers * TripsEach
    /\ IsOpen /\ ~IsClosed

C11_ResetClears ==
    /\ []((resets >= 1 /\ sinceReset = 0)
            => /\ failures = 0
               /\ threshold >= 1 => IsClosed /\ ~IsOpen)
    /\ [][resets' = resets + 1
            => /\ failures' = 0
               /\ threshold' >= 1 => IsClosed' /\ ~IsOpen'
               /\ (resets >= 1 /\ sinceReset = 0)
                     => failures' = failures /\ threshold' = threshold]_vars

C11_Witness ==
    /\ resets = 2 /\ sinceReset = 0
    /\ SumIssued(Trippers) = NumTrippers * TripsEach
    /\ threshold = 1 /\ failures = 0
    /\ IsClosed /\ ~IsOpen

C14_StepsOfFailures ==
    [][\/ failures' = failures
       \/ failures' = failures + 1
       \/ failures' = 0 /\ resets' = resets + 1]_vars

====
